---- MODULE Spec2Model ----
(***************************************************************************)
(* A model of sotastats.py: the main loop with its hour/day/month          *)
(* triggers, the spot and summit normalizers, the two sqlite tables and    *)
(* the three reports.                                                      *)
(*                                                                         *)
(* Values.  A datetime is the tuple <<year, month, day, hour, minute,      *)
(* second>>; None (where a datetime is expected) is the empty tuple.  A    *)
(* Python str is a sequence of one-character strings.  A JSON value as     *)
(* delivered by the API is a record [t, s, n, dt, dots]: t is its kind     *)
(* ("str", "int", "null", or "ts" for a str holding a timestamp), s its    *)
(* characters, n its number, and for a timestamp dt is the datetime its    *)
(* ISO text denotes (None when the text is no ISO timestamp) and dots the  *)
(* number of "." characters in it.  A raw record is a function from the    *)
(* keys it has to JSON values: a missing key is missing from its DOMAIN.   *)
(***************************************************************************)
EXTENDS Integers, Sequences, FiniteSets, TLC

VARIABLES
    pc,           \* position of main() in its loop (or "crashed")
    exc,          \* the uncaught exception that ended main(), "" while it runs
    previous,     \* main's `previous` (None before the first iteration ends)
    now,          \* main's `now`
    clock,        \* the wall clock: the latest value utcnow() has returned
    spots,        \* rows of the spots table (PRIMARY KEY id)
    summits,      \* rows of the summits table (no key), in insertion order
    uncommitted,  \* number of writes made since the last conn.commit()
    summit_data,  \* main's `summit_data` between query_summits and store_summits
    events,       \* what main() has done in the current iteration, in order
    console,      \* what the current iteration printed: warnings and skips
    written,      \* report sections appended to the report file this iteration
    store_all,    \* config["store_all"]
    spot_data     \* main's `spot_data`: "unbound" before the first query_spots,
                  \* then "None" or "data" as the last query_spots returned

vars == <<pc, exc, previous, now, clock, spots, summits, uncommitted,
          summit_data, events, console, written, store_all, spot_data>>

(***************************************************************************)
(* Bounds of the model.                                                    *)
(***************************************************************************)
MaxBatch == 3
MaxRegions == 2

(***************************************************************************)
(* datetime                                                                *)
(***************************************************************************)
None == << >>

DT(y, mo, d, h, mi, s) == <<y, mo, d, h, mi, s>>

year(t) == t[1]
month(t) == t[2]
day(t) == t[3]
hour(t) == t[4]

\* a < b for datetimes, field by field: also the order sqlite gives their
\* TEXT form 'YYYY-MM-DD HH:MM:SS'.
RECURSIVE Before(_, _)
Before(a, b) ==
    IF a = << >> \/ b = << >> THEN FALSE
    ELSE IF Head(a) # Head(b) THEN Head(a) < Head(b)
    ELSE Before(Tail(a), Tail(b))

NotAfter(a, b) == a = b \/ Before(a, b)

\* date.toordinal(): days since the civil epoch, proleptic Gregorian.
DaysFromCivil(y, m, d) ==
    LET yy == IF m <= 2 THEN y - 1 ELSE y
        era == yy \div 400
        yoe == yy - era * 400
        mp == (m + 9) % 12
        doy == (153 * mp + 2) \div 5 + d - 1
        doe == yoe * 365 + yoe \div 4 - yoe \div 100 + doy
    IN  era * 146097 + doe

SecondOfDay(t) == (t[4] * 60 + t[5]) * 60 + t[6]

\* (a - b).days for two datetimes: timedelta normalises to 0 <= seconds < 86400,
\* so .days is the floor of the difference in days.
TimedeltaDays(a, b) ==
    LET da == DaysFromCivil(a[1], a[2], a[3])
        db == DaysFromCivil(b[1], b[2], b[3])
    IN  (da - db) + (IF SecondOfDay(a) < SecondOfDay(b) THEN -1 ELSE 0)

(***************************************************************************)
(* str and JSON values                                                     *)
(***************************************************************************)
JStr(s) == [t |-> "str", s |-> s, n |-> 0, dt |-> None, dots |-> 0]
JInt(n) == [t |-> "int", s |-> << >>, n |-> n, dt |-> None, dots |-> 0]
JNull == [t |-> "null", s |-> << >>, n |-> 0, dt |-> None, dots |-> 0]
\* A str holding the ISO text of datetime d followed by `dots` suffixes ".xxx";
\* JTsBad is a str that is no ISO timestamp.
JTs(d, dots) == [t |-> "ts", s |-> << >>, n |-> 0, dt |-> d, dots |-> dots]
JTsBad == [t |-> "ts", s |-> <<"?">>, n |-> 0, dt |-> None, dots |-> 0]

IsStr(v) == v.t \in {"str", "ts"}

Lower == {"a", "g", "n", "w", "x"}
UpperOf(c) ==
    CASE c = "a" -> "A" [] c = "g" -> "G" [] c = "n" -> "N"
      [] c = "w" -> "W" [] c = "x" -> "X" [] OTHER -> c

\* str.upper()
upper(s) == [i \in 1..Len(s) |-> UpperOf(s[i])]

RECURSIVE lstrip(_)
lstrip(s) == IF s # << >> /\ Head(s) = " " THEN lstrip(Tail(s)) ELSE s

RECURSIVE rstrip(_)
rstrip(s) ==
    IF s # << >> /\ s[Len(s)] = " " THEN rstrip(SubSeq(s, 1, Len(s) - 1)) ELSE s

\* str.strip()
strip(s) == rstrip(lstrip(s))

Digits == {"0", "1", "2", "3", "4", "5", "6", "7", "8", "9"}
DigitVal(c) ==
    CASE c = "0" -> 0 [] c = "1" -> 1 [] c = "2" -> 2 [] c = "3" -> 3
      [] c = "4" -> 4 [] c = "5" -> 5 [] c = "6" -> 6 [] c = "7" -> 7
      [] c = "8" -> 8 [] c = "9" -> 9

RECURSIVE DecimalVal(_)
DecimalVal(s) ==
    IF s = << >> THEN 0
    ELSE DecimalVal(SubSeq(s, 1, Len(s) - 1)) * 10 + DigitVal(s[Len(s)])

\* A result: a value, or the exception raised instead.
Ok(v) == [ok |-> TRUE, val |-> v, exc |-> ""]
Raise(e) == [ok |-> FALSE, val |-> 0, exc |-> e]

\* int(v) for a JSON value: a number as it is, a str when (stripped) it is a
\* run of digits, ValueError for any other str, TypeError for None.
int(v) ==
    CASE v.t = "int" -> Ok(v.n)
      [] v.t = "null" -> Raise("TypeError")
      [] v.t = "ts" -> Raise("ValueError")
      [] OTHER ->
            LET s == strip(v.s)
            IN  IF s # << >> /\ \A i \in 1..Len(s) : s[i] \in Digits
                THEN Ok(DecimalVal(s))
                ELSE Raise("ValueError")

\* locale.atof(v) under en_US: the grouping "," is dropped, then float(): at
\* least one digit, digits and at most one "." otherwise.  The float is kept
\* as its cleaned text.  A value that is no str has no .replace.
atof(v) ==
    IF v.t # "str" THEN Raise(IF v.t = "ts" THEN "ValueError" ELSE "AttributeError")
    ELSE LET s == strip(SelectSeq(v.s, LAMBDA c : c # ","))
             dotsIn == Cardinality({i \in 1..Len(s) : s[i] = "."})
         IN  IF /\ \A i \in 1..Len(s) : s[i] \in Digits \cup {"."}
                /\ dotsIn <= 1
                /\ \E i \in 1..Len(s) : s[i] \in Digits
             THEN Ok(s)
             ELSE Raise("ValueError")

\* normalize_sota_timestamp(timestamp): with a "." the text is split at it,
\* the unpacking into (ts, ms) needs exactly two parts, and the first part is
\* parsed; without one the whole text is parsed.
normalize_sota_timestamp(v) ==
    CASE v.t = "null" -> Raise("TypeError")
      [] v.t = "int" -> Raise("TypeError")
      [] v.t = "str" -> Raise("ValueError")
      [] OTHER ->
            IF v.dots > 1 THEN Raise("ValueError")
            ELSE IF v.dt = None THEN Raise("ValueError")
            ELSE Ok(v.dt)

(***************************************************************************)
(* Normalizers                                                             *)
(***************************************************************************)
\* s[k]: KeyError when the raw record has no key k.
Get(s, k) == IF k \in DOMAIN s THEN Ok(s[k]) ELSE Raise("KeyError")

\* s[k].upper().strip(): only a str has .upper.
UpperStrip(s, k) ==
    IF k \notin DOMAIN s THEN Raise("KeyError")
    ELSE IF ~IsStr(s[k]) THEN Raise("AttributeError")
    ELSE Ok(strip(upper(s[k].s)))

\* s[k].strip()
Strip(s, k) ==
    IF k \notin DOMAIN s THEN Raise("KeyError")
    ELSE IF ~IsStr(s[k]) THEN Raise("AttributeError")
    ELSE Ok(strip(s[k].s))

\* s["comments"].strip() if type(s["comments"]) is str else None
Comments(s) ==
    IF "comments" \notin DOMAIN s THEN Raise("KeyError")
    ELSE IF IsStr(s["comments"]) THEN Ok(JStr(strip(s["comments"].s)))
    ELSE Ok(JNull)

\* try: int(s["userID"]) / except (KeyError, ValueError): 0.  Any other
\* exception of int() is not caught here.
UserID(s) ==
    LET r == IF "userID" \in DOMAIN s THEN int(s["userID"]) ELSE Raise("KeyError")
    IN  IF r.ok THEN r
        ELSE IF r.exc \in {"KeyError", "ValueError"} THEN Ok(0)
        ELSE r

\* The first exception of a sequence of results, "" when there is none.
RECURSIVE FirstExc(_)
FirstExc(rs) ==
    IF rs = << >> THEN ""
    ELSE IF ~Head(rs).ok THEN Head(rs).exc
    ELSE FirstExc(Tail(rs))

\* normalize_spot(s): the normalized spot, or the first exception raised, the
\* fields taken in the order of the source.
normalize_spot(s) ==
    LET id == IF "id" \in DOMAIN s THEN int(s["id"]) ELSE Raise("KeyError")
        ts == IF "timeStamp" \in DOMAIN s
              THEN normalize_sota_timestamp(s["timeStamp"]) ELSE Raise("KeyError")
        ac == UpperStrip(s, "activatorCallsign")
        as == UpperStrip(s, "associationCode")
        sc == UpperStrip(s, "summitCode")
        mo == Strip(s, "mode")
        sd == Strip(s, "summitDetails")
        co == Comments(s)
        hc == Strip(s, "highlightColor")
        cs == UpperStrip(s, "callsign")
        an == Strip(s, "activatorName")
        fr == IF "frequency" \in DOMAIN s THEN atof(s["frequency"]) ELSE Raise("KeyError")
        ui == UserID(s)
        e == FirstExc(<<id, ts, ac, as, sc, mo, sd, co, hc, cs, an, fr, ui>>)
    IN  IF e # "" THEN Raise(e)
        ELSE Ok([id |-> id.val, timeStamp |-> ts.val, activatorCallsign |-> ac.val,
                 associationCode |-> as.val, summitCode |-> sc.val,
                 frequency |-> fr.val, mode |-> mo.val, summitDetails |-> sd.val,
                 comments |-> co.val, highlightColor |-> hc.val, callsign |-> cs.val,
                 activatorName |-> an.val, userID |-> ui.val])

\* normalize_summit(s, timestamp): exceptions are not caught here.
normalize_summit(s, timestamp) ==
    LET sc == UpperStrip(s, "summitCode")
        na == Strip(s, "name")
        po == IF "points" \in DOMAIN s THEN int(s["points"]) ELSE Raise("KeyError")
        ct == IF "activationCount" \in DOMAIN s
              THEN int(s["activationCount"]) ELSE Raise("KeyError")
        zero == ct.ok /\ ct.val = 0
        ad == IF zero THEN Ok(None)
              ELSE IF "activationDate" \in DOMAIN s
              THEN normalize_sota_timestamp(s["activationDate"]) ELSE Raise("KeyError")
        cl == IF zero THEN Ok(JNull)
              ELSE LET r == UpperStrip(s, "activationCall")
                   IN  IF r.ok THEN Ok(JStr(r.val)) ELSE r
        e == FirstExc(<<sc, na, po, ct, ad, cl>>)
    IN  IF e # "" THEN Raise(e)
        ELSE Ok([summitCode |-> sc.val, name |-> na.val, points |-> po.val,
                 activationCount |-> ct.val, activationDate |-> ad.val,
                 activationCall |-> cl.val, refreshed |-> timestamp])

(***************************************************************************)
(* config                                                                  *)
(***************************************************************************)
association == <<"w", "5", "n">>

(***************************************************************************)
(* The store                                                               *)
(***************************************************************************)
\* A variant of ReplaceSpot: INSERT OR IGNORE, which keeps the row it finds.
ReplaceSpot_Ignore(table, n) ==
    IF \E r \in table : r.id = n.id THEN table ELSE table \cup {n}

\* REPLACE INTO spots: id is the PRIMARY KEY, so a row with the same id is
\* deleted before the new row is inserted.
ReplaceSpot(table, n) == {r \in table : r.id # n.id} \cup {n}

\* A variant of ReplaceSummit for a table keyed by summitCode: the row of the
\* same code is deleted before the new row is inserted.
ReplaceSummit_ByCode(table, s) ==
    Append(SelectSeq(table, LAMBDA r : r.summitCode # s.summitCode), s)

\* REPLACE INTO summits: the table has no key, so nothing conflicts and the
\* row is appended.
ReplaceSummit(table, s) == Append(table, s)

\* A variant of store_spot without the test of line 206: every spot that
\* normalizes is written.
store_spot_unfiltered(st, i, r, faults, storeAll) ==
    IF ~r.ok
    THEN [st EXCEPT !.console = Append(@,
             [msg |-> "could not normalize spot", at |-> i, reason |-> r.exc])]
    ELSE IF i \in faults
    THEN [st EXCEPT !.console = Append(@,
             [msg |-> "could not store spot", at |-> i, reason |-> "sqlite3.Error"])]
    ELSE [st EXCEPT !.table = ReplaceSpot(@, r.val), !.writes = @ + 1]

\* The body of store_spots' loop for record i of the batch, r being what
\* normalize_spot made of it.  st is [table, console, writes]; faults are the
\* positions of the batch whose conn.execute raises.
store_spot(st, i, r, faults, storeAll) ==
    IF ~r.ok
    THEN [st EXCEPT !.console = Append(@,
             [msg |-> "could not normalize spot", at |-> i, reason |-> r.exc])]
    ELSE IF upper(r.val.associationCode) # upper(association) /\ ~storeAll
    THEN [st EXCEPT !.console = Append(@,
             [msg |-> "Skipping association code", at |-> i, reason |-> ""])]
    ELSE IF i \in faults
    THEN [st EXCEPT !.console = Append(@,
             [msg |-> "could not store spot", at |-> i, reason |-> "sqlite3.Error"])]
    ELSE [st EXCEPT !.table = ReplaceSpot(@, r.val), !.writes = @ + 1]

\* A variant of store_spots whose loop ends at the first record that does
\* not normalize.
RECURSIVE store_spots_from_abort(_, _, _, _, _)
store_spots_from_abort(st, batch, i, faults, storeAll) ==
    IF i > Len(batch) THEN st
    ELSE IF ~normalize_spot(batch[i]).ok
    THEN store_spot(st, i, normalize_spot(batch[i]), faults, storeAll)
    ELSE store_spots_from_abort(
             store_spot(st, i, normalize_spot(batch[i]), faults, storeAll),
             batch, i + 1, faults, storeAll)

\* store_spots(spots), from record i of the batch on.
RECURSIVE store_spots_from(_, _, _, _, _)
store_spots_from(st, batch, i, faults, storeAll) ==
    IF i > Len(batch) THEN st
    ELSE store_spots_from(store_spot(st, i, normalize_spot(batch[i]), faults, storeAll),
                          batch, i + 1, faults, storeAll)

store_spots(table, batch, faults, storeAll) ==
    store_spots_from([table |-> table, console |-> << >>, writes |-> 0],
                     batch, 1, faults, storeAll)

\* The body of store_summits' loop for row i of the batch.
store_summit(st, i, s, faults) ==
    IF i \in faults
    THEN [st EXCEPT !.console = Append(@,
             [msg |-> "could not store summit", at |-> i, reason |-> "sqlite3.Error"])]
    ELSE [st EXCEPT !.table = ReplaceSummit(@, s), !.writes = @ + 1]

\* store_summits(summits), from row i on: the rows are already normalized.
RECURSIVE store_summits_from(_, _, _, _)
store_summits_from(st, batch, i, faults) ==
    IF i > Len(batch) THEN st
    ELSE store_summits_from(store_summit(st, i, batch[i], faults), batch, i + 1, faults)

store_summits(table, batch, faults) ==
    store_summits_from([table |-> table, console |-> << >>, writes |-> 0],
                       batch, 1, faults)

(***************************************************************************)
(* query_summits                                                           *)
(***************************************************************************)
\* summits.append(normalize_summit(s, batch_timestamp)) for the summits of
\* one response, rs being what normalize_summit makes of each: the first
\* exception leaves the loop, and query_summits.
AppendNormalized(acc, rs) ==
    IF FirstExc(rs) # "" THEN Raise(FirstExc(rs))
    ELSE Ok(acc \o [k \in 1..Len(rs) |-> rs[k].val])

normalize_region(acc, raws, timestamp) ==
    AppendNormalized(acc, [k \in 1..Len(raws) |-> normalize_summit(raws[k], timestamp)])

\* The association's response, as a `response` read for its "summits": it
\* has no such key.
AssocResponse == [ok |-> FALSE, summits |-> << >>]

\* The loop over region_list, from region i on.  `response` is the variable
\* of that name: the association's response before the first region, then
\* the last region response that arrived.  A failed region request prints
\* and leaves `response` as it was; response["summits"] is then read from it.
RECURSIVE query_regions(_, _, _, _, _)
RECURSIVE query_region(_, _, _, _, _)
RECURSIVE next_region(_, _, _, _, _)
query_regions(acc, regions, i, response, timestamp) ==
    IF i > Len(regions) THEN Ok(acc)
    ELSE query_region(acc, regions, i,
                      IF regions[i].ok THEN regions[i] ELSE response, timestamp)

query_region(acc, regions, i, response, timestamp) ==
    IF ~response.ok THEN Raise("KeyError")
    ELSE next_region(normalize_region(acc, response.summits, timestamp),
                     regions, i, response, timestamp)

next_region(r, regions, i, response, timestamp) ==
    IF r.ok THEN query_regions(r.val, regions, i + 1, response, timestamp) ELSE r

\* What query_summits returns, r being the outcome of its loop.
SummitsResult(r) ==
    IF r.ok THEN [status |-> "ok", rows |-> r.val, exc |-> ""]
    ELSE [status |-> "raised", rows |-> << >>, exc |-> r.exc]

\* query_summits(): None when the association request fails, the list of
\* normalized summits otherwise; an exception leaves it uncaught.  cat is
\* what the server answers: [assoc |-> the association request succeeds,
\* regions |-> per region [ok |-> its request succeeds, summits |-> raw
\* summits]]; timestamp is batch_timestamp.
query_summits(cat, timestamp) ==
    IF ~cat.assoc THEN [status |-> "none", rows |-> << >>, exc |-> ""]
    ELSE SummitsResult(query_regions(<< >>, cat.regions, 1, AssocResponse, timestamp))

(***************************************************************************)
(* Reports                                                                 *)
(***************************************************************************)
\* sqlite's date(timeStamp)
date(t) == <<t[1], t[2], t[3]>>

\* The rows of the two spot reports: distinct (date, activator, summit) of
\* the association's spots in the window; the daily window is closed at its
\* end, the monthly one open.
SpotRows(table, begin, end, closed) ==
    { <<date(r.timeStamp), r.activatorCallsign, r.summitCode>> :
        r \in { x \in table :
                  /\ x.associationCode = upper(association)
                  /\ NotAfter(begin, x.timeStamp)
                  /\ IF closed THEN NotAfter(x.timeStamp, end)
                               ELSE Before(x.timeStamp, end) } }

\* daily_report(ending_on): the section appended to the report file, or no
\* section when the query fails.
daily_report(table, ending_on, qfail) ==
    LET begin_timestamp == DT(year(ending_on), month(ending_on), day(ending_on), 0, 0, 0)
        end_timestamp == DT(year(ending_on), month(ending_on), day(ending_on), 23, 59, 59)
    IN  IF qfail THEN << >>
        ELSE << [kind |-> "daily", begin |-> begin_timestamp, end |-> end_timestamp,
                 rows |-> SpotRows(table, begin_timestamp, end_timestamp, TRUE)] >>

\* begin_timestamp and end_timestamp of the two monthly reports.
MonthBegin(year_number, month_number) == DT(year_number, month_number, 1, 0, 0, 0)

\* A variant of MonthEnd without the December branch.
MonthEnd_SameYear(year_number, month_number) ==
    DT(year_number, month_number + 1, 1, 0, 0, 0)

MonthEnd(year_number, month_number) ==
    IF month_number = 12 THEN DT(year_number + 1, 1, 1, 0, 0, 0)
    ELSE DT(year_number, month_number + 1, 1, 0, 0, 0)

\* monthly_report_spots(year_number, month_number)
monthly_report_spots(table, year_number, month_number, qfail) ==
    LET begin_timestamp == MonthBegin(year_number, month_number)
        end_timestamp == MonthEnd(year_number, month_number)
    IN  IF qfail THEN << >>
        ELSE << [kind |-> "monthly_spots", begin |-> begin_timestamp,
                 end |-> end_timestamp,
                 rows |-> SpotRows(table, begin_timestamp, end_timestamp, FALSE)] >>

\* The order sqlite gives TEXT values, on the characters the model uses.
Alphabet == <<" ", ",", ".", "/", "0", "1", "2", "3", "4", "5", "6", "7", "8", "9",
              "?", "A", "G", "N", "W", "X", "a", "g", "n", "w", "x">>
CharRank(c) == CHOOSE i \in 1..Len(Alphabet) : Alphabet[i] = c

RECURSIVE TextLess(_, _)
TextLess(a, b) ==
    IF b = << >> THEN FALSE
    ELSE IF a = << >> THEN TRUE
    ELSE IF Head(a) # Head(b) THEN CharRank(Head(a)) < CharRank(Head(b))
    ELSE TextLess(Tail(a), Tail(b))

\* ORDER BY summitCode, refreshed, activationDate ASC
HotLess(a, b) ==
    IF a.summitCode # b.summitCode THEN TextLess(a.summitCode, b.summitCode)
    ELSE IF a.refreshed # b.refreshed THEN Before(a.refreshed, b.refreshed)
    ELSE Before(a.activationDate, b.activationDate)

\* ORDER BY refreshed DESC
HistoryLess(a, b) == Before(b.refreshed, a.refreshed)

\* The ORDER BY of the two summit queries.
RowLess(order, a, b) == IF order = "hot" THEN HotLess(a, b) ELSE HistoryLess(a, b)

\* rows sorted by an order; rows it does not order keep their table order.
RECURSIVE SortInsert(_, _, _)
SortInsert(sorted, r, order) ==
    IF sorted = << >> THEN <<r>>
    ELSE IF RowLess(order, r, Head(sorted)) THEN <<r>> \o sorted
    ELSE <<Head(sorted)>> \o SortInsert(Tail(sorted), r, order)

RECURSIVE SortBy(_, _)
SortBy(rows, order) ==
    IF rows = << >> THEN << >>
    ELSE SortInsert(SortBy(SubSeq(rows, 1, Len(rows) - 1), order), rows[Len(rows)], order)

\* SELECT * FROM summits WHERE activationDate >= begin and activationDate < end
\* ORDER BY summitCode, refreshed, activationDate: a NULL date is in no window.
hot_summits(table, begin, end) ==
    SortBy(SelectSeq(table, LAMBDA r :
               /\ r.activationDate # None
               /\ NotAfter(begin, r.activationDate)
               /\ Before(r.activationDate, end)), "hot")

\* SELECT * FROM summits WHERE summitCode == code ORDER BY refreshed DESC LIMIT 2
summit_history(table, code) ==
    LET all == SortBy(SelectSeq(table, LAMBDA r : r.summitCode = code), "history")
    IN  SubSeq(all, 1, IF Len(all) < 2 THEN Len(all) ELSE 2)

\* One line of the summit report.
ErrorLine(ref) ==
    [t |-> "error", ref |-> ref, name |-> << >>, count |-> 0, total |-> 0, points |-> 0,
     most_recently |-> << >>, by |-> JNull, badge |-> "", td |-> 0]

WarningLine(td) ==
    [t |-> "warning", ref |-> << >>, name |-> << >>, count |-> 0, total |-> 0,
     points |-> 0, most_recently |-> << >>, by |-> JNull, badge |-> "", td |-> td]

\* The badge of a data line, from the total alone.
Badge(total) == IF total <= 1 THEN "initial" ELSE IF total <= 5 THEN "rare" ELSE " "

\* The data line of a hot row `summit` with its history: the count is the
\* hot row's activationCount less that of the second history row.
DataLine(summit, history) ==
    [t |-> "data", ref |-> summit.summitCode, name |-> summit.name,
     count |-> summit.activationCount - history[2].activationCount,
     total |-> summit.activationCount, points |-> summit.points,
     most_recently |-> date(summit.activationDate), by |-> summit.activationCall,
     badge |-> Badge(summit.activationCount), td |-> 0]

\* A variant of Warned without suppress_stale_data_warnings: the warning is
\* decided for every row.
Warned_EveryRow(st, td) ==
    IF td < 29 THEN Append(st.lines, WarningLine(td))
    ELSE IF td > 31 THEN Append(st.lines, WarningLine(td))
    ELSE st.lines

\* The stale-data warning of a row whose history has two rows, unless one
\* was decided before.
Warned(st, td) ==
    IF st.suppress THEN st.lines
    ELSE IF td < 29 THEN Append(st.lines, WarningLine(td))
    ELSE IF td > 31 THEN Append(st.lines, WarningLine(td))
    ELSE st.lines

\* A variant of report_row that passes over a row without two history rows
\* in silence.
report_row_silent(st, summit, history) ==
    IF Len(history) # 2 THEN st
    ELSE [st EXCEPT
            !.lines = Append(Warned(st, TimedeltaDays(history[1].refreshed,
                                                      history[2].refreshed)),
                             DataLine(summit, history)),
            !.suppress = TRUE]

\* The body of the loop over hot_summits for one row and its history.  st
\* is [lines, suppress, raised].
report_row(st, summit, history) ==
    IF Len(history) # 2
    THEN [st EXCEPT !.lines = Append(@, ErrorLine(summit.summitCode))]
    ELSE [st EXCEPT
            !.lines = Append(Warned(st, TimedeltaDays(history[1].refreshed,
                                                      history[2].refreshed)),
                             DataLine(summit, history)),
            !.suppress = TRUE]

\* The loop over hot_summits, from row i on.  histfail: the history query
\* of the first row raises, which nothing catches.
RECURSIVE report_rows(_, _, _, _, _)
report_rows(st, table, hot, i, histfail) ==
    IF i > Len(hot) THEN st
    ELSE IF histfail /\ i = 1 THEN [st EXCEPT !.raised = "sqlite3.Error"]
    ELSE report_rows(report_row(st, hot[i], summit_history(table, hot[i].summitCode)),
                     table, hot, i + 1, histfail)

\* What the report wrote: its lines, and the footnotes of the badges seen.
SummitSection(begin, end, st) ==
    [section |->
       << [kind |-> "monthly_summits", begin |-> begin, end |-> end, lines |-> st.lines,
           footnotes |->
             IF st.raised # "" THEN {}
             ELSE {st.lines[k].badge : k \in 1..Len(st.lines)} \cap {"initial", "rare"}] >>,
     raised |-> st.raised]

\* monthly_report_summits(year_number, month_number): the section written,
\* and the exception that left the function, if any.  qfail is "hot" when
\* the first query fails (caught: the report is given up), "history" when a
\* history query fails (not caught), "none" otherwise.
monthly_report_summits(table, year_number, month_number, qfail) ==
    IF qfail = "hot" THEN [section |-> << >>, raised |-> ""]
    ELSE SummitSection(MonthBegin(year_number, month_number),
                       MonthEnd(year_number, month_number),
                       report_rows([lines |-> << >>, suppress |-> FALSE, raised |-> ""],
                                   table,
                                   hot_summits(table, MonthBegin(year_number, month_number),
                                               MonthEnd(year_number, month_number)),
                                   1, qfail = "history"))

(***************************************************************************)
(* main(): one action per statement of the loop body.  The sets the        *)
(* actions take are what the clock and the server may deliver.             *)
(***************************************************************************)
Event(e, arg) == [e |-> e, arg |-> arg]

\* utcnow() one second after the clock's last reading.
Later(t) == <<t[1], t[2], t[3], t[4], t[5], t[6] + 1>>

\* What conn.execute may do to the writes of a batch: none fails, or one does.
FaultSets(n) == {{}} \cup {{i} : i \in 1..n}

\* line 423: now = datetime.utcnow(), after the sleep of the iteration before.
Tick(Times) ==
    /\ pc = "top"
    /\ \E t \in Times :
          /\ clock = None \/ Before(clock, t)
          /\ now' = t
          /\ clock' = t
    /\ pc' = "ingest"
    /\ events' = << >>
    /\ console' = << >>
    /\ written' = << >>
    /\ UNCHANGED <<exc, previous, spots, summits, uncommitted, summit_data, store_all,
                   spot_data>>

\* A variant of IngestDue that compares the whole timestamp.
IngestDue_AnyChange == previous = None \/ now # previous

\* A variant of IngestDue that also asks again while the last request has
\* given nothing.
IngestDue_OrMissed ==
    previous = None \/ hour(now) # hour(previous) \/ spot_data = "None"

\* main's three conditions.
IngestDue == previous = None \/ hour(now) # hour(previous)
DailyDue == previous # None /\ day(now) # day(previous)
MonthlyDue == previous # None /\ month(now) # month(previous)

\* A variant of Ingest without line 428: the writes of store_spots stay
\* uncommitted.
Ingest_NoCommit(Feeds) ==
    /\ pc = "ingest"
    /\ IF IngestDue
       THEN \E feed \in Feeds :
              IF feed.ok
              THEN \E faults \in FaultSets(Len(feed.batch)) :
                   \E st \in {store_spots(spots, feed.batch, faults, store_all)} :
                         /\ spots' = st.table
                         /\ console' = console \o st.console
                         /\ uncommitted' = uncommitted + st.writes
                         /\ events' = events \o <<Event("query_spots", feed),
                                                  Event("store_spots", faults)>>
              ELSE /\ events' = Append(events, Event("query_spots", feed))
                   /\ UNCHANGED <<spots, console, uncommitted>>
       ELSE UNCHANGED <<spots, console, uncommitted, events>>
    /\ spot_data' = IF ~IngestDue THEN spot_data
                     ELSE IF events'[Len(events) + 1].arg.ok THEN "data" ELSE "None"
    /\ pc' = "daily"
    /\ UNCHANGED <<exc, previous, now, clock, summits, summit_data, written, store_all>>

\* lines 424-428: query_spots(), and with data store_spots() and commit.
\* feed is what the request returns: [ok |-> FALSE] when it raises.
Ingest(Feeds) ==
    /\ pc = "ingest"
    /\ IF IngestDue
       THEN \E feed \in Feeds :
              IF feed.ok
              THEN \E faults \in FaultSets(Len(feed.batch)) :
                   \E st \in {store_spots(spots, feed.batch, faults, store_all)} :
                         /\ spots' = st.table
                         /\ console' = console \o st.console
                         /\ uncommitted' = 0
                         /\ events' = events \o <<Event("query_spots", feed),
                                                  Event("store_spots", faults),
                                                  Event("commit", 0)>>
              ELSE /\ events' = Append(events, Event("query_spots", feed))
                   /\ UNCHANGED <<spots, console, uncommitted>>
       ELSE UNCHANGED <<spots, console, uncommitted, events>>
    /\ spot_data' = IF ~IngestDue THEN spot_data
                     ELSE IF events'[Len(events) + 1].arg.ok THEN "data" ELSE "None"
    /\ pc' = "daily"
    /\ UNCHANGED <<exc, previous, now, clock, summits, summit_data, written, store_all>>

\* A variant of Daily that reports the day that has begun.
Daily_OfNow ==
    /\ pc = "daily"
    /\ IF DailyDue
       THEN \E qfail \in BOOLEAN :
              /\ written' = written \o daily_report(spots, now, qfail)
              /\ events' = Append(events, Event("daily_report", qfail))
       ELSE UNCHANGED <<written, events>>
    /\ pc' = "monthly"
    /\ UNCHANGED <<exc, previous, now, clock, spots, summits, uncommitted,
                   summit_data, console, store_all, spot_data>>

\* lines 429-430: daily_report(previous)
Daily ==
    /\ pc = "daily"
    /\ IF DailyDue
       THEN \E qfail \in BOOLEAN :
              /\ written' = written \o daily_report(spots, previous, qfail)
              /\ events' = Append(events, Event("daily_report", qfail))
       ELSE UNCHANGED <<written, events>>
    /\ pc' = "monthly"
    /\ UNCHANGED <<exc, previous, now, clock, spots, summits, uncommitted,
                   summit_data, console, store_all, spot_data>>

\* lines 431-432: monthly_report_spots(previous.year, previous.month)
MonthlySpots ==
    /\ pc = "monthly"
    /\ IF MonthlyDue
       THEN /\ \E qfail \in BOOLEAN :
                 /\ written' = written \o
                      monthly_report_spots(spots, year(previous), month(previous), qfail)
                 /\ events' = Append(events, Event("monthly_report_spots", qfail))
            /\ pc' = "query_summits"
       ELSE /\ pc' = "end"
            /\ UNCHANGED <<written, events>>
    /\ UNCHANGED <<exc, previous, now, clock, spots, summits, uncommitted,
                   summit_data, console, store_all, spot_data>>

\* line 433: summit_data = query_summits()
QuerySummits(Catalogs) ==
    /\ pc = "query_summits"
    /\ \E cat \in Catalogs, batch_timestamp \in {Later(clock)} :
          \E r \in {query_summits(cat, batch_timestamp)} :
              /\ events' = Append(events, Event("query_summits", cat))
              /\ clock' = IF cat.assoc THEN batch_timestamp ELSE clock
              /\ IF r.status = "raised"
                 THEN /\ pc' = "crashed"
                      /\ exc' = r.exc
                      /\ UNCHANGED summit_data
                 ELSE /\ pc' = "store_summits"
                      /\ summit_data' = [none |-> r.status = "none", rows |-> r.rows]
                      /\ UNCHANGED exc
    /\ UNCHANGED <<previous, now, spots, summits, uncommitted, console, written, store_all,
                   spot_data>>

\* line 434: store_summits(summit_data); iterating over None is a TypeError.
StoreSummits ==
    /\ pc = "store_summits"
    /\ IF summit_data.none
       THEN /\ pc' = "crashed"
            /\ exc' = "TypeError"
            /\ UNCHANGED <<summits, uncommitted, console, events>>
       ELSE \E faults \in FaultSets(Len(summit_data.rows)) :
              \E st \in {store_summits(summits, summit_data.rows, faults)} :
                  /\ summits' = st.table
                  /\ uncommitted' = uncommitted + st.writes
                  /\ console' = console \o st.console
                  /\ events' = Append(events, Event("store_summits", faults))
                  /\ pc' = "commit"
                  /\ UNCHANGED exc
    /\ UNCHANGED <<previous, now, clock, spots, summit_data, written, store_all,
                   spot_data>>

\* A variant of main without line 435.
Commit_Missing ==
    /\ pc = "commit"
    /\ pc' = "monthly_summits"
    /\ UNCHANGED <<exc, previous, now, clock, spots, summits, uncommitted, summit_data,
                   events, console, written, store_all, spot_data>>

\* line 435: conn.commit()
Commit ==
    /\ pc = "commit"
    /\ uncommitted' = 0
    /\ events' = Append(events, Event("commit", 0))
    /\ pc' = "monthly_summits"
    /\ UNCHANGED <<exc, previous, now, clock, spots, summits, summit_data, console,
                   written, store_all, spot_data>>

\* line 436: monthly_report_summits(previous.year, previous.month)
MonthlySummits ==
    /\ pc = "monthly_summits"
    /\ \E qfail \in {"none", "hot", "history"} :
          \E r \in {monthly_report_summits(summits, year(previous), month(previous), qfail)} :
              /\ written' = written \o r.section
              /\ events' = Append(events, Event("monthly_report_summits", qfail))
              /\ IF r.raised # ""
                 THEN pc' = "crashed" /\ exc' = r.raised
                 ELSE pc' = "end" /\ UNCHANGED exc
    /\ UNCHANGED <<previous, now, clock, spots, summits, uncommitted, summit_data,
                   console, store_all, spot_data>>

\* A variant of EndIter that sets `previous` only while it is None.
EndIter_SetOnce ==
    /\ pc = "end"
    /\ previous' = IF previous = None THEN now ELSE previous
    /\ pc' = "top"
    /\ UNCHANGED <<exc, now, clock, spots, summits, uncommitted, summit_data, events,
                   console, written, store_all, spot_data>>

\* lines 437-438: previous = now; time.sleep(1)
EndIter ==
    /\ pc = "end"
    /\ previous' = now
    /\ pc' = "top"
    /\ UNCHANGED <<exc, now, clock, spots, summits, uncommitted, summit_data, events,
                   console, written, store_all, spot_data>>

\* The state after initdb() and `previous = None`.
InitWith(storeAlls) ==
    /\ pc = "top"
    /\ exc = ""
    /\ previous = None
    /\ now = None
    /\ clock = None
    /\ spots = {}
    /\ summits = << >>
    /\ uncommitted = 0
    /\ summit_data = [none |-> TRUE, rows |-> << >>]
    /\ events = << >>
    /\ console = << >>
    /\ written = << >>
    /\ store_all \in storeAlls
    /\ spot_data = "unbound"

(***************************************************************************)
(* What the clock and the server deliver, within the bounds.               *)
(***************************************************************************)
\* Sequences over S of length 0..n.
SeqUpTo(S, n) == UNION {[1..k -> S] : k \in 0..n}

RawSpot(id, assoc, call, ts, freq) ==
    [id |-> id, timeStamp |-> ts, activatorCallsign |-> JStr(call),
     associationCode |-> JStr(assoc), summitCode |-> JStr(<<"x", "/", "1">>),
     frequency |-> JStr(freq), mode |-> JStr(<<"a">>), summitDetails |-> JStr(<<"x">>),
     comments |-> JNull, highlightColor |-> JStr(<< >>), callsign |-> JStr(call),
     activatorName |-> JStr(<<"n", " ">>), userID |-> JInt(0)]

\* s without key k
Without(s, k) == [x \in DOMAIN s \ {k} |-> s[x]]

SpotTime == DT(2024, 12, 31, 12, 50, 0)

\* Two spots of the association with the same id and different content, one
\* of another association, one whose frequency is no number, one without a
\* summitCode.
SpotA == RawSpot(JStr(<<"1">>), <<" ", "w", "5", "n">>, <<"a">>, JTs(SpotTime, 1), <<"1", "4", ".", "2">>)
SpotB == RawSpot(JInt(1), <<"W", "5", "N">>, <<"x">>, JTs(SpotTime, 0), <<"7", ",", "0", "3", "2">>)
SpotG == RawSpot(JInt(2), <<"g">>, <<"g">>, JTs(SpotTime, 0), <<"7">>)
SpotBadFreq == RawSpot(JInt(3), <<"w", "5", "n">>, <<"a">>, JTs(SpotTime, 0), <<"x">>)
SpotNoSummit == Without(RawSpot(JInt(4), <<"w", "5", "n">>, <<"a">>, JTs(SpotTime, 0), <<"7">>), "summitCode")

RawSpots == {SpotA, SpotB, SpotG, SpotBadFreq, SpotNoSummit}

NoFeed == [ok |-> FALSE, batch |-> << >>]
Feed(batch) == [ok |-> TRUE, batch |-> batch]

RawSummit(code, count, actdate, points) ==
    [summitCode |-> JStr(code), name |-> JStr(<<"x">>), points |-> points,
     activationCount |-> JInt(count), activationDate |-> actdate,
     activationCall |-> JStr(<<"a">>)]

Region(raws) == [ok |-> TRUE, summits |-> raws]
NoRegion == [ok |-> FALSE, summits |-> << >>]
Catalog(regions) == [assoc |-> TRUE, regions |-> regions]
NoCatalog == [assoc |-> FALSE, regions |-> << >>]

X1 == <<"x", "1", " ">>

(***************************************************************************)
(* Spec: the scheduler.  Every combination of four dates and four times of *)
(* day, one spot per feed, one summit per catalog.                         *)
(***************************************************************************)
Dates == {<<2024, 12, 31>>, <<2025, 1, 1>>, <<2025, 1, 31>>, <<2025, 2, 1>>}
TimesOfDay == {<<13, 0>>, <<13, 30>>, <<13, 59>>, <<14, 0>>}
Times == {DT(d[1], d[2], d[3], h[1], h[2], 0) : d \in Dates, h \in TimesOfDay}

Feeds == {NoFeed, Feed(<<SpotA>>)}

Catalogs ==
    {NoCatalog, Catalog(<<NoRegion>>),
     Catalog(<<Region(<<RawSummit(X1, 3, JTs(DT(2024, 12, 30, 0, 0, 0), 0), JInt(2))>>)>>)}

Init == InitWith({TRUE})

Next ==
    \/ Tick(Times)
    \/ Ingest(Feeds)
    \/ Daily
    \/ MonthlySpots
    \/ QuerySummits(Catalogs)
    \/ StoreSummits
    \/ Commit
    \/ MonthlySummits
    \/ EndIter

Spec == Init /\ [][Next]_vars

(***************************************************************************)
(* SpecSpots: the spot batches.  Every batch of up to MaxBatch raw spots,  *)
(* with either value of store_all, over three instants: an hour crossing   *)
(* and a day and month crossing.                                           *)
(***************************************************************************)
TimesSpots ==
    {DT(2024, 12, 31, 13, 0, 0), DT(2024, 12, 31, 14, 0, 0), DT(2025, 1, 1, 14, 0, 0)}

FeedsSpots == {NoFeed} \cup {Feed(b) : b \in SeqUpTo(RawSpots, MaxBatch)}

\* An association without regions.
CatalogsSpots == {Catalog(<< >>)}

InitSpots == InitWith(BOOLEAN)

NextSpots ==
    \/ Tick(TimesSpots)
    \/ Ingest(FeedsSpots)
    \/ Daily
    \/ MonthlySpots
    \/ QuerySummits(CatalogsSpots)
    \/ StoreSummits
    \/ Commit
    \/ MonthlySummits
    \/ EndIter

SpecSpots == InitSpots /\ [][NextSpots]_vars

(***************************************************************************)
(* SpecSummits: the catalogs.  The association has up to MaxRegions        *)
(* regions; a summit code belongs to one region, so region i delivers the  *)
(* summit of code "x<i> " in one of four versions, or its request fails.   *)
(* The clock is read on 2024-12-31, on 2025-01-02 (an iteration that was   *)
(* held up over the month change) and on 2025-02-01.                       *)
(***************************************************************************)
TimesSummits ==
    {DT(2024, 12, 31, 23, 0, 0), DT(2025, 1, 2, 0, 0, 0), DT(2025, 2, 1, 0, 0, 0)}

FeedsSummits == {NoFeed, Feed(<< >>)}

SummitCodeOf(i) == <<"x", <<"1", "2", "3", "4", "5", "6", "7", "8", "9">>[i], " ">>

\* The summit of region i as the server may deliver it: activated 5 times,
\* last on 2025-01-01; 7 times, last on 2025-01-20; never activated; and a
\* record whose activationDate is no timestamp.
SummitVersions(i) ==
    {RawSummit(SummitCodeOf(i), 5, JTs(DT(2025, 1, 1, 0, 0, 0), 0), JInt(2)),
     RawSummit(SummitCodeOf(i), 7, JTs(DT(2025, 1, 20, 0, 0, 0), 1), JStr(<<"2">>)),
     RawSummit(SummitCodeOf(i), 0, JNull, JInt(1)),
     RawSummit(SummitCodeOf(i), 3, JTsBad, JInt(1))}

RegionsOf(i) == {NoRegion} \cup {Region(<<s>>) : s \in SummitVersions(i)}

RegionLists(n) ==
    {rs \in [1..n -> UNION {RegionsOf(i) : i \in 1..n}] :
        \A i \in 1..n : rs[i] \in RegionsOf(i)}

CatalogsSummits ==
    {NoCatalog} \cup {Catalog(rs) : rs \in UNION {RegionLists(n) : n \in 0..MaxRegions}}

InitSummits == InitWith({TRUE})

NextSummits ==
    \/ Tick(TimesSummits)
    \/ Ingest(FeedsSummits)
    \/ Daily
    \/ MonthlySpots
    \/ QuerySummits(CatalogsSummits)
    \/ StoreSummits
    \/ Commit
    \/ MonthlySummits
    \/ EndIter

SpecSummits == InitSummits /\ [][NextSummits]_vars

(***************************************************************************)
(* SpecMonths: every month.  The clock is read early in each month from    *)
(* December 2024 to January 2026 (or some of them: an iteration may be     *)
(* held up over any number of months), with no spots and no regions.       *)
(***************************************************************************)
Months == {<<2024, 12>>} \cup {<<2025, m>> : m \in 1..12} \cup {<<2026, 1>>}
TimesMonths == {DT(ym[1], ym[2], 1 + (ym[2] % 2), 0, 0, 0) : ym \in Months}

FeedsMonths == {NoFeed}

InitMonths == InitWith({TRUE})

NextMonths ==
    \/ Tick(TimesMonths)
    \/ Ingest(FeedsMonths)
    \/ Daily
    \/ MonthlySpots
    \/ QuerySummits(CatalogsSpots)
    \/ StoreSummits
    \/ Commit
    \/ MonthlySummits
    \/ EndIter

SpecMonths == InitMonths /\ [][NextMonths]_vars

(***************************************************************************)
(* SpecUser: the userID of a spot.  Batches of up to two spots that differ *)
(* in their userID alone: absent, a str that is no number, a str of        *)
(* digits, a number, and null.                                             *)
(***************************************************************************)
\* s with s[k] = v
WithField(s, k, v) == [x \in DOMAIN s \cup {k} |-> IF x = k THEN v ELSE s[x]]

UserIDs == {JStr(<<"x">>), JStr(<<" ", "7">>), JInt(5), JNull}

UserSpots == {Without(SpotB, "userID")} \cup {WithField(SpotB, "userID", v) : v \in UserIDs}

FeedsUser == {NoFeed} \cup {Feed(b) : b \in SeqUpTo(UserSpots, 2)}

InitUser == InitWith(BOOLEAN)

NextUser ==
    \/ Tick(TimesSpots)
    \/ Ingest(FeedsUser)
    \/ Daily
    \/ MonthlySpots
    \/ QuerySummits(CatalogsSpots)
    \/ StoreSummits
    \/ Commit
    \/ MonthlySummits
    \/ EndIter

SpecUser == InitUser /\ [][NextUser]_vars

(***************************************************************************)
(* SpecWarn: the spacing of the snapshots.  The association has one to     *)
(* MaxRegions regions of one summit each, activated on 2025-01-01; the     *)
(* clock is read on 2024-12-31, on the 2nd or 5th of January and on the    *)
(* 1st or 3rd of February, so that the snapshots of January and February   *)
(* are 27, 29, 30 or 32 days apart.                                        *)
(***************************************************************************)
TimesWarn ==
    {DT(2024, 12, 31, 23, 0, 0), DT(2025, 1, 2, 0, 0, 0), DT(2025, 1, 5, 0, 0, 0),
     DT(2025, 2, 1, 0, 0, 0), DT(2025, 2, 3, 0, 0, 0)}

ActivatedSummit(i) ==
    RawSummit(SummitCodeOf(i), 5, JTs(DT(2025, 1, 1, 0, 0, 0), 0), JInt(2))

CatalogsWarn ==
    {Catalog([i \in 1..n |-> Region(<<ActivatedSummit(i)>>)]) : n \in 1..MaxRegions}

InitWarn == InitWith({TRUE})

NextWarn ==
    \/ Tick(TimesWarn)
    \/ Ingest(FeedsMonths)
    \/ Daily
    \/ MonthlySpots
    \/ QuerySummits(CatalogsWarn)
    \/ StoreSummits
    \/ Commit
    \/ MonthlySummits
    \/ EndIter

SpecWarn == InitWarn /\ [][NextWarn]_vars

(***************************************************************************)
(* Properties                                                              *)
(***************************************************************************)
\* The names of the events of the current iteration, in order.
Names == [i \in DOMAIN events |-> events[i].e]
Count(e) == Cardinality({i \in DOMAIN events : events[i].e = e})
Index(e) == CHOOSE i \in DOMAIN events : events[i].e = e
Sections(kind) == {written[i] : i \in {j \in DOMAIN written : written[j].kind = kind}}

\* main() is past the ingestion / daily / monthly statement of this iteration.
PastIngest == pc \notin {"top", "ingest"}
PastDaily == pc \notin {"top", "ingest", "daily"}
PastMonthly == pc \in {"end", "crashed"}

\* C1: in every iteration the ingestion trigger fires exactly once when
\* `previous` is undefined or now's hour differs from previous's hour, and
\* not at all otherwise; a firing is one spot request, followed (when it
\* delivers) by store_spots and the commit.
C1_IngestionTrigger ==
    PastIngest =>
      IF previous = None \/ now[4] # previous[4]
      THEN /\ Count("query_spots") = 1
           /\ Names[1] = "query_spots"
           /\ IF events[1].arg.ok
              THEN /\ Len(events) >= 3
                   /\ Names[2] = "store_spots" /\ Names[3] = "commit"
                   /\ Count("store_spots") = 1
              ELSE Count("store_spots") = 0
      ELSE Count("query_spots") = 0 /\ Count("store_spots") = 0

\* The trigger has fired for previous = 13:59, now = 14:00 of one day.
C1_Witness ==
    /\ pc = "daily" /\ previous # None
    /\ date(previous) = date(now)
    /\ <<previous[4], previous[5]>> = <<13, 59>> /\ <<now[4], now[5]>> = <<14, 0>>
    /\ Count("query_spots") = 1 /\ Count("commit") = 1

\* The trigger an event belongs to: 1 ingestion, 2 daily report, 3 monthly
\* report; a commit belongs to the store it follows.
RECURSIVE Phase(_)
Phase(i) ==
    CASE Names[i] \in {"query_spots", "store_spots"} -> 1
      [] Names[i] = "daily_report" -> 2
      [] Names[i] = "commit" -> IF i = 1 THEN 0 ELSE Phase(i - 1)
      [] OTHER -> 3

\* C2: within one iteration each trigger fires at most once, those that fire
\* run in the order ingestion, daily report, monthly report, none starting
\* before the one before it is over; and an iteration ends with `previous`
\* set to `now`.
C2_TriggerOrder ==
    /\ Count("query_spots") <= 1
    /\ Count("daily_report") <= 1
    /\ Count("monthly_report_spots") <= 1
    /\ \A i, j \in DOMAIN events : i < j => Phase(i) <= Phase(j)
    /\ (pc = "top" /\ now # None) => previous = now

\* An iteration in which all three triggers fired has ended.
C2_Witness ==
    /\ pc = "top" /\ previous = now /\ now # None
    /\ Count("query_spots") = 1 /\ Count("daily_report") = 1
    /\ Count("monthly_report_summits") = 1

\* The rows a daily report of calendar date d must list.
RowsOfDate(d) ==
    { <<date(r.timeStamp), r.activatorCallsign, r.summitCode>> :
        r \in {x \in spots : x.associationCode = <<"W", "5", "N">> /\ date(x.timeStamp) = d} }

\* C3: the daily report fires exactly when `previous` is defined and now's
\* day of month differs from previous's; the report covers previous's
\* calendar date, 00:00:00 through 23:59:59, and lists the association's
\* spots of that date.
C3_DailyReport ==
    PastDaily =>
      /\ Count("daily_report") =
           (IF previous # None /\ now[3] # previous[3] THEN 1 ELSE 0)
      /\ \A s \in Sections("daily") :
           /\ s.begin = <<previous[1], previous[2], previous[3], 0, 0, 0>>
           /\ s.end = <<previous[1], previous[2], previous[3], 23, 59, 59>>
           /\ s.rows = RowsOfDate(date(previous))
      /\ (Count("daily_report") = 1 /\ ~events[Index("daily_report")].arg)
           => Cardinality(Sections("daily")) = 1

\* A daily report has been written, with a spot in it, on a day crossing
\* that is also a month crossing.
C3_Witness ==
    /\ PastDaily
    /\ \E s \in Sections("daily") : s.rows # {}
    /\ month(now) # month(previous)

\* The events of the monthly trigger, when all of it ran.
MonthlyEvents ==
    <<"monthly_report_spots", "query_summits", "store_summits", "commit",
      "monthly_report_summits">>

\* The tail of this iteration's events from its monthly_report_spots on.
MonthlyTail ==
    IF Count("monthly_report_spots") = 0 THEN << >>
    ELSE SubSeq(Names, Index("monthly_report_spots"), Len(Names))

\* C4: the monthly trigger fires when `previous` is defined and now's month
\* differs from previous's; its steps run in the order (a) spot summary of
\* previous's year and month, (b) catalog request, snapshot appends and
\* commit, (c) entity-delta report of previous's year and month; (c) does
\* not start before the rows of (b) are in the table and committed.
C4_MonthlyOrder ==
    /\ PastDaily /\ pc # "monthly" =>
         (Count("monthly_report_spots") = 1) = (previous # None /\ now[2] # previous[2])
    /\ Len(MonthlyTail) <= 5
    /\ MonthlyTail = SubSeq(MonthlyEvents, 1, Len(MonthlyTail))
    /\ pc # "top" =>
         \A s \in Sections("monthly_spots") \cup Sections("monthly_summits") :
            s.begin = <<previous[1], previous[2], 1, 0, 0, 0>>
    /\ (pc = "monthly_summits" \/ Count("monthly_report_summits") = 1) =>
         /\ uncommitted = 0
         /\ ~summit_data.none
         /\ \A k \in DOMAIN summit_data.rows :
              k \notin events[Index("store_summits")].arg =>
                \E j \in DOMAIN summits : summits[j] = summit_data.rows[k]

\* The entity-delta report has run after a snapshot row was stored.
C4_Witness ==
    /\ Count("monthly_report_summits") = 1
    /\ Len(summit_data.rows) > 0
    /\ events[Index("store_summits")].arg = {}
    /\ Cardinality(Sections("monthly_summits")) = 1

\* A request of this iteration raised: the spot request, the association
\* request or a region request.
TransportFailed ==
    \E i \in DOMAIN events :
       \/ events[i].e = "query_spots" /\ ~events[i].arg.ok
       \/ /\ events[i].e = "query_summits"
          /\ \/ ~events[i].arg.assoc
             \/ \E k \in DOMAIN events[i].arg.regions : ~events[i].arg.regions[k].ok

\* C5: a transport failure of a request is no data for the cycle: main()
\* does not end, it goes on to `previous = now` (stated for the iterations
\* in which no query of a report fails).
C5_TransportFailureNotFatal ==
    (TransportFailed /\ Count("monthly_report_summits") = 0) => pc # "crashed"

\* The association request failed, query_summits returned None, and
\* store_summits(None) ended main().
C5_Witness ==
    /\ pc = "crashed" /\ exc = "TypeError"
    /\ Len(events) > 0
    /\ events[Len(events)].e = "query_summits"
    /\ ~events[Len(events)].arg.assoc

\* A step of Ingest in which the spot request delivered a batch.
StoreStep == pc = "ingest" /\ Len(events') > 0 /\ events'[1].arg.ok

\* What normalize_spot makes of each record of a batch.
Normalized(batch) == [i \in DOMAIN batch |-> normalize_spot(batch[i])]

\* Record i of a batch, nb being the batch normalized, normalizes and passes
\* the association filter.
Accepted(nb, i) ==
    /\ nb[i].ok
    /\ store_all \/ upper(nb[i].val.associationCode) = <<"W", "5", "N">>

\* The positions of the batch whose record is handed to the store and
\* written: accepted, and the write does not raise.
Written(nb, faults) == {i \in DOMAIN nb : Accepted(nb, i) /\ i \notin faults}

\* The lines of a console with message msg, as the positions they are about.
LinesAbout(con, msg) == {con[k].at : k \in {j \in DOMAIN con : con[j].msg = msg}}
LineCount(con, msg) == Cardinality({j \in DOMAIN con : con[j].msg = msg})

\* What C6 says of a step that stores the batch normalized to nb, W being
\* the positions written and failed those that do not normalize.
OnlyNormalizedStored(nb, W, failed) ==
    /\ \A r \in spots' \ spots : \E i \in W : r = nb[i].val
    /\ \A i \in W : \E r \in spots' : r.id = nb[i].val.id
    /\ LinesAbout(console', "could not normalize spot") = failed
    /\ LineCount(console', "could not normalize spot") = Cardinality(failed)
    /\ Cardinality(spots') <= Cardinality(spots) + Cardinality(W)

\* C6: of a batch passed to store_spots, the records that reach the store
\* are those that normalize (and pass the association filter), wherever the
\* others sit in the batch: a row that is new in the table is the
\* normalization of such a record, every such record whose write succeeds
\* has a row with its id, and each record that does not normalize gets one
\* line on the console and no row.
C6_OnlyNormalizedStored ==
    [][StoreStep =>
         \E nb \in {Normalized(events'[1].arg.batch)} :
            OnlyNormalizedStored(nb, Written(nb, events'[2].arg),
                                 {i \in DOMAIN nb : ~nb[i].ok})
      ]_vars

\* A batch of three with one unparseable frequency in the middle has given
\* two rows and one line.
C6_Witness ==
    /\ pc = "daily" /\ previous = None
    /\ Len(events) = 3 /\ events[1].arg.ok
    /\ events[1].arg.batch = <<SpotA, SpotBadFreq, SpotG>>
    /\ Cardinality(spots) = 2
    /\ LineCount(console, "could not normalize spot") = 1

\* The last position among W of the normalized batch nb written with id k.
LastWrite(nb, W, k) ==
    CHOOSE i \in W : nb[i].val.id = k /\ \A j \in W : nb[j].val.id = k => j <= i

\* What C8 says of a step that stores the batch normalized to nb, W being
\* the positions written.
UpsertNewestWins(nb, W) ==
    /\ \A r1, r2 \in spots' : r1.id = r2.id => r1 = r2
    /\ \A i \in W : nb[LastWrite(nb, W, nb[i].val.id)].val \in spots'
    /\ \A r \in spots : (\A i \in W : nb[i].val.id # r.id) => r \in spots'

\* C8: after any spot writes the table holds at most one row per id, and
\* the row of an id has the content of the last successful write for it;
\* ids that were not written keep their row.
C8_UpsertNewestWins ==
    [][StoreStep =>
         \E nb \in {Normalized(events'[1].arg.batch)} :
            \E W \in {Written(nb, events'[2].arg)} : UpsertNewestWins(nb, W)
      ]_vars

\* Id 1 was stored in one iteration and stored again with other content in
\* a later one: one row, with the later content.
C8_Witness ==
    /\ pc = "daily" /\ previous # None
    /\ Len(events) = 3 /\ events[1].arg.ok
    /\ events[1].arg.batch = <<SpotB, SpotA>> /\ events[2].arg = {}
    /\ spots = {normalize_spot(SpotA).val}

\* The catalog of the query_summits that has just returned or raised.
LastCatalog == events[Len(events)].arg
AfterQuerySummits == Len(events) > 0 /\ events[Len(events)].e = "query_summits"

\* Every request of the catalog succeeded.
FullyFetched(cat) == cat.assoc /\ \A k \in DOMAIN cat.regions : cat.regions[k].ok

\* The raw summits of regions i.. of a catalog, in order.
RECURSIVE RawFrom(_, _)
RawFrom(regions, i) ==
    IF i > Len(regions) THEN << >> ELSE regions[i].summits \o RawFrom(regions, i + 1)

\* The raw summits of a catalog that normalize, normalized, in order.
GoodRows(cat, timestamp) ==
    LET good == SelectSeq(RawFrom(cat.regions, 1),
                          LAMBDA s : normalize_summit(s, timestamp).ok)
    IN  [k \in 1..Len(good) |-> normalize_summit(good[k], timestamp).val]

\* C7: a raw summit of the catalog that fails normalization is discarded
\* alone: after a query_summits whose requests all succeeded, main() goes on
\* to store_summits with the normalization of every other summit of the
\* catalog.
C7_BadSummitDiscarded ==
    (AfterQuerySummits /\ FullyFetched(LastCatalog)) =>
        /\ pc = "store_summits"
        /\ summit_data.rows = GoodRows(LastCatalog, clock)

\* A fully fetched catalog of one good summit and one whose activationDate
\* is no timestamp: the ValueError of normalize_summit has ended main().
C7_Witness ==
    /\ AfterQuerySummits /\ FullyFetched(LastCatalog)
    /\ Len(LastCatalog.regions) = 2
    /\ Len(GoodRows(LastCatalog, clock)) = 1
    /\ pc = "crashed" /\ exc = "ValueError"

\* The rows of a batch whose write did not raise, in order.
Stored(batch, faults) ==
    LET kept == SelectSeq([k \in 1..Len(batch) |-> k], LAMBDA k : k \notin faults)
    IN  [j \in 1..Len(kept) |-> batch[kept[j]]]

\* C9: the summits table is append-only: any step leaves every row it held
\* where it was and as it was, and store_summits adds the rows of its batch
\* after them, so that the snapshots of two batches of one summit code stand
\* side by side.
C9_SnapshotsAppendOnly ==
    [][/\ Len(summits') >= Len(summits)
       /\ SubSeq(summits', 1, Len(summits)) = summits
       /\ (pc = "store_summits" /\ pc' = "commit") =>
             summits' = summits \o Stored(summit_data.rows, events'[Len(events')].arg)
      ]_vars

\* Two batches stored: the table holds two rows of one summit code with
\* different `refreshed`, the older before the newer.
C9_Witness ==
    /\ pc = "commit"
    /\ \E i, j \in DOMAIN summits :
          /\ i < j
          /\ summits[i].summitCode = summits[j].summitCode
          /\ Before(summits[i].refreshed, summits[j].refreshed)
          /\ summits[i].activationCount # summits[j].activationCount

\* The data lines of the summit reports written in this iteration.
DataLines ==
    UNION {{written[k].lines[j] : j \in {j \in DOMAIN written[k].lines :
                                            written[k].lines[j].t = "data"}} :
           k \in {k \in DOMAIN written : written[k].kind = "monthly_summits"}}

\* C10: the count of every data line of the summit report is the
\* activationCount of the summit's most recent snapshot less that of its
\* second most recent one.
C10_CountIsLatestDelta ==
    \A l \in DataLines :
       l.count = summit_history(summits, l.ref)[1].activationCount
                 - summit_history(summits, l.ref)[2].activationCount

\* Snapshots of 2025-01-02 (5 activations, last on 2025-01-01) and of
\* 2025-02-01 (7, last on 2025-01-20): the report of January has a line of
\* count 0 for the summit, whose latest two snapshots differ by 2.
C10_Witness ==
    /\ pc = "end"
    /\ Len(summits) = 2
    /\ summits[1].summitCode = summits[2].summitCode
    /\ summits[1].activationCount = 5 /\ summits[2].activationCount = 7
    /\ \E l \in DataLines : l.ref = summits[1].summitCode /\ l.count = 0

\* The badge the specification gives a cumulative count.
BadgeOfTotal(total) ==
    CASE total <= 1 -> "initial" [] total >= 2 /\ total <= 5 -> "rare" [] OTHER -> " "

\* C11: the badge of a summit's line is that of the activationCount of the
\* summit's most recent snapshot: initial up to 1, rare from 2 to 5, none
\* above.
C11_BadgeOfCurrentTotal ==
    \A l \in DataLines :
       l.badge = BadgeOfTotal(summit_history(summits, l.ref)[1].activationCount)

\* Snapshots of 5 and then 7 activations, both with an activationDate in
\* the month reported: the line of the older row carries the rare badge of
\* its total 5, while the summit's current total is 7.
C11_Witness ==
    /\ pc = "end"
    /\ Len(summits) = 2
    /\ summits[1].summitCode = summits[2].summitCode
    /\ summits[1].activationCount = 5 /\ summits[2].activationCount = 7
    /\ \E l \in DataLines :
          l.ref = summits[1].summitCode /\ l.total = 5 /\ l.badge = "rare"

\* The summit reports of this iteration that ran to their end.
CompleteReports ==
    IF \E i \in DOMAIN events :
          events[i].e = "monthly_report_summits" /\ events[i].arg = "none"
    THEN Sections("monthly_summits") ELSE {}

\* The lines of a report that are about a summit, in order.
Entries(s) == SelectSeq(s.lines, LAMBDA l : l.t # "warning")

\* The number of snapshots the table holds of a summit code.
SnapshotCount(code) ==
    Cardinality({i \in DOMAIN summits : summits[i].summitCode = code})

\* What C12 says of a report s whose candidate rows are hot.
InsufficiencyReported(s, hot) ==
    /\ Len(Entries(s)) = Len(hot)
    /\ \A k \in DOMAIN hot :
          /\ Entries(s)[k].ref = hot[k].summitCode
          /\ IF SnapshotCount(hot[k].summitCode) < 2
             THEN /\ Entries(s)[k].t = "error"
                  /\ Entries(s)[k].badge = ""
             ELSE Entries(s)[k].t = "data"

\* C12: in the summit report a summit with fewer than two snapshots gets a
\* line saying so and nothing else (no count, no badge), and the report
\* goes on: every candidate row has its line, in order.
C12_InsufficientDataSkipped ==
    \A s \in CompleteReports : InsufficiencyReported(s, hot_summits(summits, s.begin, s.end))

\* A report with the line of a summit of one snapshot followed by the data
\* line of a summit of two.
C12_Witness ==
    /\ pc = "end"
    /\ \E s \in CompleteReports :
          \E j, k \in DOMAIN Entries(s) :
             /\ j < k
             /\ Entries(s)[j].t = "error" /\ SnapshotCount(Entries(s)[j].ref) = 1
             /\ Entries(s)[k].t = "data"

\* C13: the summit report has one line per summit code: no code has two
\* lines in one report.
C13_OneLinePerSummit ==
    \A s \in CompleteReports :
       \A j, k \in DOMAIN Entries(s) : Entries(s)[j].ref = Entries(s)[k].ref => j = k

\* Two snapshots of one summit, taken a month apart, both with an
\* activationDate in the month reported: the report has a data line for
\* each of them.
C13_Witness ==
    /\ pc = "end"
    /\ Len(summits) = 2
    /\ Before(summits[1].refreshed, summits[2].refreshed)
    /\ \E s \in CompleteReports :
          /\ Len(Entries(s)) = 2
          /\ Entries(s)[1].ref = Entries(s)[2].ref
          /\ Entries(s)[1].t = "data" /\ Entries(s)[2].t = "data"

\* The sections of the two monthly reports written in this iteration.
MonthlySections == Sections("monthly_spots") \cup Sections("monthly_summits")

\* C14: the window of both monthly reports starts at the first instant of
\* previous's year and month and ends, exclusive, at the first instant of
\* the month after it: January of the next year after a December, the next
\* month of the same year otherwise.
C14_MonthWindow ==
    (pc # "top" /\ previous # None) =>
       /\ \A s \in MonthlySections :
            /\ s.begin = <<previous[1], previous[2], 1, 0, 0, 0>>
            /\ s.end = IF previous[2] = 12
                       THEN <<previous[1] + 1, 1, 1, 0, 0, 0>>
                       ELSE <<previous[1], previous[2] + 1, 1, 0, 0, 0>>
            /\ s.end[2] \in 1..12
       /\ \A i \in DOMAIN events :
            (events[i].e = "monthly_report_spots" /\ ~events[i].arg)
               => Cardinality(Sections("monthly_spots")) = 1

\* Both reports of December 2025 were written in 2026, over the window from
\* 2025-12-01 to 2026-01-01.
C14_Witness ==
    /\ pc = "end"
    /\ previous # None /\ previous[1] = 2025 /\ previous[2] = 12 /\ now[1] = 2026
    /\ \E s \in Sections("monthly_spots") : s.end = <<2026, 1, 1, 0, 0, 0>>
    /\ \E s \in Sections("monthly_summits") : s.end = <<2026, 1, 1, 0, 0, 0>>

\* The spot request of this iteration delivered a batch and no write of it
\* raised.
StoredBatch ==
    /\ Len(events) >= 2
    /\ events[1].e = "query_spots" /\ events[1].arg.ok
    /\ events[2].arg = {}

\* The fields of a raw spot other than userID are valid: with a userID of 0
\* it normalizes.
OtherFieldsValid(s) == normalize_spot(WithField(s, "userID", JInt(0))).ok

\* The userID a raw spot must be stored with: the integer its userID
\* parses to, 0 when it is absent or parses to none.
UserIDOrZero(s) ==
    IF "userID" \in DOMAIN s /\ int(s["userID"]).ok THEN int(s["userID"]).val ELSE 0

\* C15: userID is fail-open: a raw spot whose other fields are valid
\* normalizes whatever its userID is, with 0 when the userID is absent or
\* no integer, and is stored.
C15_UserIDFailOpen ==
    StoredBatch =>
       \A i \in DOMAIN events[1].arg.batch :
          OtherFieldsValid(events[1].arg.batch[i]) =>
             /\ normalize_spot(events[1].arg.batch[i]).ok
             /\ normalize_spot(events[1].arg.batch[i]).val.userID
                  = UserIDOrZero(events[1].arg.batch[i])
             /\ \E r \in spots : r.id = normalize_spot(events[1].arg.batch[i]).val.id

\* A batch of one spot whose userID is null: it was not stored, and the
\* console has the TypeError of its normalization.
C15_Witness ==
    /\ pc = "daily" /\ StoredBatch
    /\ events[1].arg.batch = <<WithField(SpotB, "userID", JNull)>>
    /\ spots = {}
    /\ console = <<[msg |-> "could not normalize spot", at |-> 1, reason |-> "TypeError"]>>

\* The query of report event i of this iteration raised.
QueryFailedAt(i) ==
    \/ events[i].e \in {"daily_report", "monthly_report_spots"} /\ events[i].arg = TRUE
    \/ events[i].e = "monthly_report_summits" /\ events[i].arg # "none"

\* C16: a query that fails in a report gives up that report alone: main()
\* does not end, and goes on with what follows the report.
C16_QueryFailureNotFatal ==
    \A i \in DOMAIN events :
       QueryFailedAt(i) =>
          /\ i = Len(events) => pc # "crashed"
          /\ events[i].e = "daily_report" =>
                pc = "monthly" \/ ~MonthlyDue \/ Count("monthly_report_spots") = 1
          /\ events[i].e = "monthly_report_spots" =>
                pc = "query_summits" \/ Count("query_summits") = 1
          /\ events[i].e = "monthly_report_summits" => pc \in {"end", "top"}

\* The history query of a summit raised in monthly_report_summits and ended
\* main().
C16_Witness ==
    /\ pc = "crashed" /\ exc = "sqlite3.Error"
    /\ Len(events) > 0
    /\ events[Len(events)] = Event("monthly_report_summits", "history")

\* C17: every write of a firing is committed in that firing before a report
\* reads the store: a store is followed at once by the commit, writes are
\* pending only between store_summits and its commit, and none at the end
\* of an iteration.
C17_WritesCommitted ==
    /\ \A i \in DOMAIN events :
          events[i].e \in {"store_spots", "store_summits"} =>
             IF i < Len(events) THEN events[i + 1].e = "commit" ELSE pc = "commit"
    /\ pc # "commit" => uncommitted = 0
    /\ \A j \in DOMAIN events :
          events[j].e \in {"daily_report", "monthly_report_spots", "monthly_report_summits"}
             => \A i \in 1..(j - 1) :
                   events[i].e \in {"store_spots", "store_summits"}
                      => \E k \in (i + 1)..(j - 1) : events[k].e = "commit"

\* An iteration that wrote a spot and a snapshot has ended, both committed.
C17_Witness ==
    /\ pc = "end" /\ uncommitted = 0
    /\ Count("store_spots") = 1 /\ Count("store_summits") = 1 /\ Count("commit") = 2
    /\ events[Index("store_spots")].arg = {} /\ events[Index("store_summits")].arg = {}
    /\ spots # {} /\ Len(summit_data.rows) = 1 /\ Len(summits) >= 1
    /\ Count("monthly_report_summits") = 1

\* C18 as stated: after a spot request that failed, the request is made
\* again in the next iteration: main() never passes its ingestion statement
\* with the None of an earlier iteration's request.
C18_RetryNextIteration ==
    (PastIngest /\ spot_data = "None") => Count("query_spots") = 1

\* The ingestion statement of one iteration.
IngestStep == pc = "ingest" /\ pc' = "daily"

\* C18: a spot request that fails stores nothing, and after it the request
\* is made again in the first iteration whose hour differs from that of the
\* iteration before it; iterations within the same hour make no request.
C18_RetryAtNextHour ==
    [][IngestStep =>
         /\ (Len(events') > Len(events) /\ spot_data' = "None") =>
               /\ spots' = spots
               /\ Len(events') = Len(events) + 1
         /\ spot_data = "None" =>
               (Len(events') > Len(events) <=> now[4] # previous[4])
      ]_vars

\* The request failed at 13:00, and the iteration of 13:30 of the same day
\* has passed its ingestion statement without a request.
C18_Witness ==
    /\ pc = "daily" /\ spot_data = "None"
    /\ previous # None /\ date(previous) = date(now)
    /\ <<previous[4], previous[5]>> = <<13, 0>> /\ <<now[4], now[5]>> = <<13, 30>>
    /\ Count("query_spots") = 0

\* The positions of the warning lines of a report.
Warnings(s) == {k \in DOMAIN s.lines : s.lines[k].t = "warning"}

\* The whole days between the two most recent snapshots of a summit code.
Gap(code) ==
    TimedeltaDays(summit_history(summits, code)[1].refreshed,
                  summit_history(summits, code)[2].refreshed)

\* The candidate rows of hot that have two snapshots, as positions.
WithTwo(hot) == {k \in DOMAIN hot : SnapshotCount(hot[k].summitCode) >= 2}

\* C19 as stated: the warning is written at most once, and exactly when the
\* first candidate row examined has two snapshots less than 29 or more than
\* 31 days apart.
C19_WarningOfFirstExamined ==
    \A s \in CompleteReports :
       \E hot \in {hot_summits(summits, s.begin, s.end)} :
          /\ Cardinality(Warnings(s)) <= 1
          /\ Warnings(s) # {} <=>
                /\ 1 \in WithTwo(hot)
                /\ Gap(hot[1].summitCode) \notin 29..31

\* What C19 says of a report s with candidate rows hot, two being the
\* positions of those with two snapshots.
WarningOfFirstWithTwo(s, hot, two) ==
    /\ Cardinality(Warnings(s)) <= 1
    /\ Warnings(s) # {} <=>
          /\ two # {}
          /\ Gap(hot[CHOOSE k \in two : \A j \in two : k <= j].summitCode) \notin 29..31
    /\ \A w \in Warnings(s) :
          /\ s.lines[w].td = Gap(hot[CHOOSE k \in two : \A j \in two : k <= j].summitCode)
          /\ s.lines[w + 1].t = "data"
          /\ \A j \in 1..(w - 1) : s.lines[j].t = "error"

\* C19: the warning is written at most once in a report; it is decided on
\* the first candidate row that has two snapshots, and written exactly when
\* those are less than 29 or more than 31 whole days apart, before that
\* row's data line.
C19_WarningOfFirstWithTwo ==
    \A s \in CompleteReports :
       \E hot \in {hot_summits(summits, s.begin, s.end)} :
          WarningOfFirstWithTwo(s, hot, WithTwo(hot))

\* A report of two summits, the first with one snapshot and the second with
\* two that are 27 days apart: one warning, after the first summit's line.
C19_Witness ==
    /\ pc = "end"
    /\ \E s \in CompleteReports :
          /\ Cardinality(Warnings(s)) = 1
          /\ Len(s.lines) >= 3
          /\ s.lines[1].t = "error"
          /\ s.lines[2].t = "warning" /\ s.lines[2].td = 27
          /\ \E k \in DOMAIN s.lines : k > 3 /\ s.lines[k].t = "data"

\* The positions of the normalized batch nb whose spot is of another
\* association than the configured one, compared in upper case.
Foreign(nb) ==
    {i \in DOMAIN nb : nb[i].ok /\ upper(nb[i].val.associationCode) # upper(association)}

\* What C20 says of a step that stores the batch normalized to nb with the
\* writes at faults failing.
AssociationFilter(nb, faults) ==
    IF store_all
    THEN /\ \A i \in DOMAIN nb :
               (nb[i].ok /\ i \notin faults) => \E r \in spots' : r.id = nb[i].val.id
         /\ LinesAbout(console', "Skipping association code") = {}
    ELSE /\ \A r \in spots' : upper(r.associationCode) = upper(association)
         /\ \A i \in Foreign(nb) : nb[i].val \notin spots'
         /\ LinesAbout(console', "Skipping association code") = Foreign(nb)

\* C20: with store_all false no spot of another association than the
\* configured one (compared without regard to case) is written, and the
\* table never holds one; with store_all true every spot that normalizes is
\* written, whatever its association.
C20_StoreAllFlag ==
    [][StoreStep =>
         \E nb \in {Normalized(events'[1].arg.batch)} :
            AssociationFilter(nb, events'[2].arg)
      ]_vars

\* With store_all false a batch of a W5N spot and a spot of association G
\* has left the first in the table and skipped the second.
C20_Witness ==
    /\ ~store_all /\ pc = "daily" /\ previous = None
    /\ Len(events) = 3 /\ events[1].arg.ok
    /\ events[1].arg.batch = <<SpotA, SpotG>> /\ events[2].arg = {}
    /\ spots = {normalize_spot(SpotA).val}
    /\ LinesAbout(console, "Skipping association code") = {2}

====
